---- MODULE Spec2Model ----
(***************************************************************************)
(* Model of the rpicam-lapse timelapse application: the event_loop of      *)
(* rpicam_lapse.cpp (src/unnamed/part_001), the RPiCamLapseEncoder buffer  *)
(* hand-off (src/unnamed/part_002) and the options of lapse_options.hpp    *)
(* (Spec); the timestamp computation of EncodeBuffer over large frame      *)
(* counts (SpecTimestamps); the frame copies of MotionExtractionStage      *)
(* (src/unnamed/part_000, SpecMotion).                                     *)
(* Time is counted in abstract ticks of the capture clock.                 *)
(***************************************************************************)
EXTENDS Integers, Sequences, FiniteSets, TLC

\* ------------------------------------------------------------------ bounds
MaxInterval == 2
MaxCaptures == 3
MaxCycle == 2
MaxEvents == 2
RefInterval == MaxInterval
MaxStamped == 2200
MaxFrameOffset == 2
MaxPrerecord == 2
MaxFrames == 4
Framerates == {1, 30}
RefFramerate == CHOOSE r \in Framerates : \A x \in Framerates : r >= x

\* ------------------------------------------------------- values and helpers
NoSignal == "0"
HandledSignals == {"SIGUSR1", "SIGUSR2", "SIGINT"}
NoKey == "0"
NoLine == "none"
Lines == {"x", "X", "a"}
MsgTypes == {"RequestComplete", "Timeout", "Quit"}
AfStates == {"AfStateIdle", "AfStateScanning", "AfStateFocused"}

Range(s) == {s[i] : i \in 1..Len(s)}
IsPrefix(s, t) == Len(s) <= Len(t) /\ \A i \in 1..Len(s) : s[i] = t[i]

\* get_key_or_signal without the reset of signal_received.
get_key_or_signal_noreset(options, sig, line) ==
    IF sig = "SIGINT"
    THEN [key |-> "x", sig |-> sig, line |-> line]
    ELSE LET k1 == IF options.keypress /\ line # NoLine THEN line ELSE NoKey
             l1 == IF options.keypress THEN NoLine ELSE line
             k2 == IF options.signal
                   THEN IF sig = "SIGUSR1" THEN "\n"
                        ELSE IF sig \in {"SIGUSR2", "SIGPIPE"} THEN "x"
                        ELSE k1
                   ELSE k1
         IN [key |-> k2, sig |-> sig, line |-> l1]

\* get_key_or_signal: the key returned, the signal state and the input
\* channel left behind.  A pending SIGINT returns before anything is read.
get_key_or_signal(options, sig, line) ==
    IF sig = "SIGINT"
    THEN [key |-> "x", sig |-> sig, line |-> line]
    ELSE LET k1 == IF options.keypress /\ line # NoLine THEN line ELSE NoKey
             l1 == IF options.keypress THEN NoLine ELSE line
             k2 == IF options.signal
                   THEN IF sig = "SIGUSR1" THEN "\n"
                        ELSE IF sig \in {"SIGUSR2", "SIGPIPE"} THEN "x"
                        ELSE k1
                   ELSE k1
             s2 == IF options.signal THEN NoSignal ELSE sig
         IN [key |-> k2, sig |-> s2, line |-> l1]

IsAbortKey(key) == key \in {"x", "X"}

\* The loop test with a strict comparison.
LoopCondition_strict(next, end) == next < end

\* while (next_capture_time <= end_capture_time)
LoopCondition(next, end) == next <= end

\* An advance that keeps the original grid after an overrun.
AdvanceSchedule_catchup(next, interval, current_time, delayed) ==
    LET target == next + interval
    IN IF current_time > target
       THEN [next |-> target, delayed |-> delayed + 1]
       ELSE [next |-> target, delayed |-> delayed]

\* next_capture_time += interval; if (current_time > next_capture_time)
\* { next_capture_time = current_time; delayed_frame++; }
AdvanceSchedule(next, interval, current_time, delayed) ==
    LET target == next + interval
    IN IF current_time > target
       THEN [next |-> current_time, delayed |-> delayed + 1]
       ELSE [next |-> target, delayed |-> delayed]

\* std::queue<CompletedRequestPtr> encode_buffer_queue_
QueuePush(q, x) == Append(q, x)
QueueFront_back(q) == q[Len(q)]
QueueFront(q) == Head(q)
QueuePop(q) == Tail(q)

\* EncodeBuffer's timestamp.  The quotient frame_count * 1000000 / framerate
\* is a 64-bit value; it is kept as two limbs, hi * 1000000 + lo with
\* 0 <= lo < 1000000, because it outgrows the checker's integers.
\* (frame_count * 1000000 stays far below 2^64 for every count used here.)
FrameQuotient(count, rate) ==
    [hi |-> count \div rate, lo |-> ((count % rate) * 1000000) \div rate]

\* 2^31 + w * 2^32 <= q, with 2^32 = 4294 * 1000000 + 967296.
AtLeastWrap(q, w) ==
    LET low  == 483648 + 967296 * w
        high == 2147 + 4294 * w + (low \div 1000000)
    IN q.hi > high \/ (q.hi = high /\ q.lo >= low % 1000000)

RECURSIVE Wraps(_, _)
Wraps(q, w) == IF AtLeastWrap(q, w) THEN Wraps(q, w + 1) ELSE w

\* (int) of the quotient: the low 32 bits, read as a signed number.
Int32Cast(q) ==
    LET w == Wraps(q, 0)
    IN (q.hi - 4294 * w) * 1000000 + (q.lo - 967296 * w)

Timestamp(count, rate) == Int32Cast(FrameQuotient(count, rate))

\* ------------------------------------------------------------------- state
VARIABLES
    options,            \* LapseOptions: interval, timeout, af_on_capture, keypress, signal, metadata
    pc,                 \* position of the main thread in event_loop
    now,                \* high_resolution_clock::now()
    next_capture_time, end_capture_time,
    frame_count, delayed_frame,
    msg,                \* type of the message last got from Wait()
    key,                \* result of the latest get_key_or_signal call
    signal_received,    \* static int signal_received
    stdin,              \* first character of the pending input line, or NoLine
    camera_started,     \* capture device running
    stopCamera, stopEncoder,   \* StopCamera / StopEncoder calls made so far
    doubleStart,        \* StartCamera was called on a started device
    encoder_,           \* encoder_ != nullptr
    enc_frame_count,    \* RPiCamLapseEncoder::frame_count
    framerate,          \* options_->framerate.value_or(DEFAULT_FRAMERATE)
    timestamp_us,       \* timestamp of the buffer last handed to the encoder
    encode_buffer_queue_,
    mutex,              \* holder of encode_buffer_queue_mutex_: "free", "main", "enc"
    epc,                \* position of the encoder's callback context
    inEncoder,          \* buffers forwarded to the encoder and not yet notified
    rogue,              \* the encoder sent a notification that answers no forwarded buffer
    submitted, released, metadataReady,   \* buffers pushed / popped / reported, in order
    fatal,              \* encodeBufferDone threw in the encoder's context
    exit,               \* how event_loop ended
    events,             \* environment events so far: signals, input lines, device faults,
                        \* unsolicited notifications
    sigint,             \* SIGINT delivered since the latest poll: "none", "seen", "in_wait"
    repeats,            \* deliveries of a signal that was already the stored one
    preludeCalls,       \* device calls made between OpenCamera and ConfigureStill
    afControls,         \* autofocus controls set so far
    \* MotionExtractionStage
    spc,                \* life cycle of the stage: "constructed", "read", "configured", "stopped"
    params,             \* the parameters given to Read
    frameOffset, fixedFrame, skip_uv_diff, bufferFrameStart,
    bufferSize, ySize, uvSize,
    bufferCount, prerecordFrameCount,
    frameBuffers,       \* std::queue<uint8_t*>: base addresses of the frame copies
    allocated,          \* frame copies allocated so far; copy n has base address n
    freed,              \* the pointers given to delete[], in order, with the caller
    emptyFront          \* front() was called on the empty queue

vars == <<options, pc, now, next_capture_time, end_capture_time, frame_count,
          delayed_frame, msg, key, signal_received, stdin, camera_started,
          stopCamera, stopEncoder, doubleStart, encoder_, enc_frame_count,
          encode_buffer_queue_, mutex, epc, inEncoder, rogue, submitted, released,
          metadataReady, fatal, exit, events, sigint, repeats, framerate,
          timestamp_us, preludeCalls, afControls, spc, params, frameOffset,
          fixedFrame, skip_uv_diff, bufferFrameStart, bufferSize, ySize, uvSize,
          bufferCount, prerecordFrameCount, frameBuffers, allocated, freed,
          emptyFront>>

mainVars == <<pc, now, next_capture_time, end_capture_time, frame_count,
              delayed_frame, msg, key, camera_started, stopCamera, stopEncoder,
              doubleStart, exit>>
encVars == <<encoder_, enc_frame_count, encode_buffer_queue_, mutex, epc,
             inEncoder, rogue, submitted, released, metadataReady, fatal>>
inputVars == <<signal_received, stdin, sigint>>
stampVars == <<framerate, timestamp_us>>
preludeVars == <<preludeCalls, afControls>>
stageVars == <<spc, params, frameOffset, fixedFrame, skip_uv_diff, bufferFrameStart,
               bufferSize, ySize, uvSize, bufferCount, prerecordFrameCount,
               frameBuffers, allocated, freed, emptyFront>>

\* The configurations explored: every interval and duration that schedule at
\* most MaxCaptures captures with the switches at their defaults (all off),
\* and every setting of the switches with interval and duration RefInterval.
Max(a, b) == IF a >= b THEN a ELSE b
DefaultSwitches(o) ==
    ~o.af_on_capture /\ ~o.keypress /\ ~o.signal /\ ~o.metadata
OptionSet ==
    {o \in [interval : 0..MaxInterval, timeout : 0..(MaxCaptures * MaxInterval),
            af_on_capture : BOOLEAN, keypress : BOOLEAN, signal : BOOLEAN,
            metadata : BOOLEAN] :
        \/ DefaultSwitches(o) /\ o.timeout < MaxCaptures * Max(o.interval, 1)
        \/ o.interval = RefInterval /\ o.timeout = RefInterval}

\* The scheduler, the signal state and the input before event_loop runs.
InitScheduler ==
    /\ pc = "start"
    /\ now = 0
    /\ next_capture_time = 0
    /\ end_capture_time = 0
    /\ frame_count = 0
    /\ delayed_frame = 0
    /\ msg = "none"
    /\ key = NoKey
    /\ signal_received = NoSignal
    /\ stdin = NoLine
    /\ camera_started = FALSE
    /\ stopCamera = 0
    /\ stopEncoder = 0
    /\ doubleStart = FALSE
    /\ exit = "none"
    /\ events = 0
    /\ sigint = "none"
    /\ repeats = 0
    /\ preludeCalls = {}
    /\ afControls = {}

\* The hand-off queue of a constructed RPiCamLapseEncoder.
InitQueue ==
    /\ encode_buffer_queue_ = <<>>
    /\ mutex = "free"
    /\ epc = "idle"
    /\ inEncoder = 0
    /\ rogue = FALSE
    /\ submitted = <<>>
    /\ released = <<>>
    /\ metadataReady = <<>>
    /\ fatal = FALSE

\* A constructed MotionExtractionStage: the queue of frame copies is empty;
\* the other members are assigned by Read and Configure before Process
\* reads them.
NoParams == [frame_offset |-> 1, fixed_frame |-> FALSE, prerecord_frames |-> 0,
             skip_uv_diff |-> FALSE]
InitStage ==
    /\ spc = "constructed"
    /\ params = NoParams
    /\ frameOffset = 0
    /\ fixedFrame = FALSE
    /\ skip_uv_diff = FALSE
    /\ bufferFrameStart = 0
    /\ bufferSize = 0
    /\ ySize = 0
    /\ uvSize = 0
    /\ bufferCount = 0
    /\ prerecordFrameCount = 0
    /\ frameBuffers = <<>>
    /\ allocated = 0
    /\ freed = <<>>
    /\ emptyFront = FALSE

Init ==
    /\ options \in OptionSet
    /\ InitScheduler
    /\ InitQueue
    /\ InitStage
    /\ encoder_ = FALSE
    /\ enc_frame_count = 0
    /\ framerate = RefFramerate
    /\ timestamp_us = 0

Running == ~fatal /\ pc # "done"

\* ------------------------------------------------------------- environment
\* A handler that takes a second delivery of the stored signal as its
\* withdrawal.
default_signal_handler_toggle(signal_number) ==
    /\ Running
    /\ pc # "start"
    /\ events < MaxEvents
    /\ events' = events + 1
    /\ signal_received' = IF signal_number = signal_received THEN NoSignal
                          ELSE signal_number
    /\ repeats' = IF signal_number = signal_received THEN repeats + 1 ELSE repeats
    /\ sigint' = IF signal_number # "SIGINT" THEN sigint
                 ELSE IF pc = "waiting" /\ now < next_capture_time THEN "in_wait"
                 ELSE IF sigint = "in_wait" THEN sigint ELSE "seen"
    /\ UNCHANGED <<options, stampVars, preludeVars, stageVars, stdin, mainVars, encVars>>

\* default_signal_handler, once event_loop has installed it: the last signal
\* delivered overwrites the state.
default_signal_handler(signal_number) ==
    /\ Running
    /\ pc # "start"
    /\ events < MaxEvents
    /\ events' = events + 1
    /\ signal_received' = signal_number
    /\ repeats' = IF signal_number = signal_received THEN repeats + 1 ELSE repeats
    /\ sigint' = IF signal_number # "SIGINT" THEN sigint
                 ELSE IF pc = "waiting" /\ now < next_capture_time THEN "in_wait"
                 ELSE IF sigint = "in_wait" THEN sigint ELSE "seen"
    /\ UNCHANGED <<options, stampVars, preludeVars, stageVars, stdin, mainVars, encVars>>

\* A line arrives on standard input.
InputLine(c) ==
    /\ Running
    /\ options.keypress
    /\ stdin = NoLine
    /\ events < MaxEvents
    /\ events' = events + 1
    /\ stdin' = c
    /\ UNCHANGED <<options, repeats, stageVars, preludeVars, stampVars, signal_received, sigint, mainVars, encVars>>

\* ------------------------------------------------------------- main thread
\* event_loop up to the autofocus test: output and signal handlers are set
\* up, the camera is opened and, with autofocus on capture, the viewfinder
\* is configured, the camera started and a scan triggered.
OpenCamera_always ==
    /\ Running
    /\ pc = "start"
    /\ camera_started' = TRUE
    /\ preludeCalls' = {"ConfigureViewfinder", "StartCamera", "SetControls"}
    /\ afControls' = {"AfTriggerStart"}
    /\ pc' = "af_wait"
    /\ UNCHANGED <<options, repeats, stageVars, stampVars, events, now, next_capture_time,
                   end_capture_time, frame_count, delayed_frame, msg, key,
                   stopCamera, stopEncoder, doubleStart, exit, inputVars, encVars>>

OpenCamera ==
    /\ Running
    /\ pc = "start"
    /\ IF options.af_on_capture
       THEN /\ camera_started' = TRUE
            /\ preludeCalls' = {"ConfigureViewfinder", "StartCamera", "SetControls"}
            /\ afControls' = {"AfTriggerStart"}
            /\ pc' = "af_wait"
       ELSE /\ camera_started' = camera_started
            /\ UNCHANGED preludeVars
            /\ pc' = "configure"
    /\ UNCHANGED <<options, repeats, stageVars, stampVars, events, now, next_capture_time,
                   end_capture_time, frame_count, delayed_frame, msg, key,
                   stopCamera, stopEncoder, doubleStart, exit, inputVars, encVars>>

\* One iteration of the autofocus loop: Wait() delivers a message of type m;
\* a completed request carries autofocus state af.
AutofocusEvent(m, af) ==
    /\ Running
    /\ pc = "af_wait"
    /\ msg' = m
    /\ IF m = "RequestComplete"
       THEN events' = events
       ELSE events < MaxEvents /\ events' = events + 1
    /\ LET r == get_key_or_signal(options, signal_received, stdin)
       IN CASE m = "Timeout" ->
                 /\ stopCamera' = stopCamera + 1
                 /\ camera_started' = TRUE
                 /\ pc' = "af_wait"
                 /\ preludeCalls' = preludeCalls \cup {"Wait", "StopCamera", "StartCamera"}
                 /\ UNCHANGED <<key, exit, inputVars>>
            [] m = "Quit" ->
                 /\ pc' = "done"
                 /\ exit' = "quit"
                 /\ preludeCalls' = preludeCalls \cup {"Wait"}
                 /\ UNCHANGED <<key, camera_started, stopCamera, inputVars>>
            [] m = "Other" ->
                 /\ pc' = "catch"
                 /\ preludeCalls' = preludeCalls \cup {"Wait"}
                 /\ UNCHANGED <<key, exit, camera_started, stopCamera, inputVars>>
            [] m = "RequestComplete" ->
                 /\ key' = r.key
                 /\ signal_received' = r.sig
                 /\ stdin' = r.line
                 /\ sigint' = "none"
                 /\ IF IsAbortKey(r.key)
                    THEN /\ stopCamera' = stopCamera + 1
                         /\ camera_started' = FALSE
                         /\ pc' = "done"
                         /\ exit' = "abort_af"
                         /\ preludeCalls' = preludeCalls \cup {"Wait", "StopCamera"}
                    ELSE IF af \in {"AfStateIdle", "AfStateScanning"}
                    THEN /\ pc' = "af_wait"
                         /\ preludeCalls' = preludeCalls \cup {"Wait"}
                         /\ UNCHANGED <<stopCamera, camera_started, exit>>
                    ELSE /\ stopCamera' = stopCamera + 1
                         /\ camera_started' = FALSE
                         /\ pc' = "configure"
                         /\ preludeCalls' = preludeCalls
                                \cup {"Wait", "StopCamera", "Teardown"}
                         /\ exit' = exit
    /\ UNCHANGED <<options, repeats, stageVars, afControls, stampVars, now, next_capture_time, end_capture_time, frame_count,
                   delayed_frame, stopEncoder, doubleStart, encVars>>

\* ConfigureStill, the autofocus lock, StartEncoder and the two instants.
Configure ==
    /\ Running
    /\ pc = "configure"
    /\ encoder_' = TRUE
    /\ enc_frame_count' = 0
    /\ next_capture_time' = now
    /\ end_capture_time' = now + options.timeout
    /\ afControls' = IF options.af_on_capture
                     THEN afControls \cup {"AfTriggerCancel"}
                     ELSE afControls
    /\ pc' = "loop"
    /\ UNCHANGED <<options, repeats, stageVars, preludeCalls, stampVars, events, now, frame_count, delayed_frame, msg, key,
                   camera_started, stopCamera, stopEncoder, doubleStart, exit,
                   inputVars, encode_buffer_queue_, mutex, epc, inEncoder, rogue,
                   submitted, released, metadataReady, fatal>>

\* app.StopCamera(); app.StopEncoder(); and event_loop is left with reason why.
Teardown(why) ==
    /\ stopCamera' = stopCamera + 1
    /\ stopEncoder' = stopEncoder + 1
    /\ camera_started' = FALSE
    /\ encoder_' = FALSE
    /\ pc' = "done"
    /\ exit' = why

\* The loop test and the poll at the head of an iteration.
LoopHead ==
    /\ Running
    /\ pc = "loop"
    /\ IF ~LoopCondition(next_capture_time, end_capture_time)
       THEN /\ Teardown("end")
            /\ UNCHANGED <<key, inputVars>>
       ELSE LET r == get_key_or_signal(options, signal_received, stdin)
            IN /\ key' = r.key
               /\ signal_received' = r.sig
               /\ stdin' = r.line
               /\ sigint' = "none"
               /\ IF IsAbortKey(r.key)
                  THEN Teardown("abort_loop")
                  ELSE /\ pc' = "waiting"
                       /\ UNCHANGED <<camera_started, stopCamera, stopEncoder,
                                      encoder_, exit>>
    /\ UNCHANGED <<options, repeats, stageVars, preludeVars, stampVars, events, now, next_capture_time, end_capture_time, frame_count,
                   delayed_frame, msg, doubleStart, enc_frame_count,
                   encode_buffer_queue_, mutex, epc, inEncoder, rogue, submitted,
                   released, metadataReady, fatal>>

\* Time passes while main_cv.wait_until blocks.
WaitTick ==
    /\ Running
    /\ pc = "waiting"
    /\ now < next_capture_time
    /\ now' = now + 1
    /\ UNCHANGED <<options, repeats, stageVars, preludeVars, stampVars, events, pc, next_capture_time, end_capture_time, frame_count,
                   delayed_frame, msg, key, camera_started, stopCamera, stopEncoder,
                   doubleStart, exit, inputVars, encVars>>

\* wait_until returns cv_status::timeout: the target instant is reached.
WaitTimeout ==
    /\ Running
    /\ pc = "waiting"
    /\ now >= next_capture_time
    /\ pc' = "capture"
    /\ UNCHANGED <<options, repeats, stageVars, preludeVars, stampVars, events, now, next_capture_time, end_capture_time, frame_count,
                   delayed_frame, msg, key, camera_started, stopCamera, stopEncoder,
                   doubleStart, exit, inputVars, encVars>>

\* wait_until returns cv_status::no_timeout before the target instant (the
\* condition variable has no notifier: a wakeup without notification); the
\* loop breaks and the teardown after the loop runs.
WaitNoTimeout ==
    /\ Running
    /\ pc = "waiting"
    /\ now < next_capture_time
    /\ Teardown("wakeup")
    /\ UNCHANGED <<options, repeats, stageVars, preludeVars, stampVars, events, now, next_capture_time, end_capture_time, frame_count,
                   delayed_frame, msg, key, doubleStart, inputVars, enc_frame_count,
                   encode_buffer_queue_, mutex, epc, inEncoder, rogue, submitted,
                   released, metadataReady, fatal>>

\* captureImage up to the queue lock of EncodeBuffer: StartCamera, Wait()
\* delivers a message of type m after d >= 1 ticks; valid says whether the
\* completed request has a buffer and memory to encode.
captureImage(m, d, valid) ==
    /\ Running
    /\ pc = "capture"
    /\ msg' = m
    /\ IF m = "RequestComplete" /\ valid
       THEN events' = events
       ELSE events < MaxEvents /\ events' = events + 1
    /\ now' = now + d
    /\ doubleStart' = (doubleStart \/ camera_started)
    /\ timestamp_us' = IF m = "RequestComplete" /\ valid
                       THEN Timestamp(enc_frame_count, framerate)
                       ELSE timestamp_us
    /\ CASE m = "Timeout" ->
              /\ stopCamera' = stopCamera + 1
              /\ camera_started' = TRUE
              /\ enc_frame_count' = enc_frame_count
              /\ pc' = "advance"
         [] m = "RequestComplete" ->
              /\ stopCamera' = stopCamera + 1
              /\ camera_started' = FALSE
              /\ IF valid
                 THEN /\ enc_frame_count' = enc_frame_count + 1
                      /\ pc' = "enc_lock"
                 ELSE /\ enc_frame_count' = enc_frame_count
                      /\ pc' = "catch"
         [] OTHER ->
              /\ stopCamera' = stopCamera
              /\ camera_started' = TRUE
              /\ enc_frame_count' = enc_frame_count
              /\ pc' = "catch"
    /\ UNCHANGED <<options, repeats, stageVars, preludeVars, framerate, next_capture_time, end_capture_time, frame_count,
                   delayed_frame, key, stopEncoder, exit, inputVars, encoder_,
                   encode_buffer_queue_, mutex, epc, inEncoder, rogue, submitted,
                   released, metadataReady, fatal>>

\* An EncodeBuffer that enters its critical section without waiting for the
\* mutex.
EncodeBufferLock_nolock ==
    /\ Running
    /\ pc = "enc_lock"
    /\ mutex' = "main"
    /\ pc' = "enc_push"
    /\ UNCHANGED <<options, repeats, stageVars, preludeVars, stampVars, events, now, next_capture_time, end_capture_time, frame_count,
                   delayed_frame, msg, key, camera_started, stopCamera, stopEncoder,
                   doubleStart, exit, inputVars, encoder_, enc_frame_count,
                   encode_buffer_queue_, epc, inEncoder, rogue, submitted, released,
                   metadataReady, fatal>>

\* EncodeBuffer: std::lock_guard takes encode_buffer_queue_mutex_.
EncodeBufferLock ==
    /\ Running
    /\ pc = "enc_lock"
    /\ mutex = "free"
    /\ mutex' = "main"
    /\ pc' = "enc_push"
    /\ UNCHANGED <<options, repeats, stageVars, preludeVars, stampVars, events, now, next_capture_time, end_capture_time, frame_count,
                   delayed_frame, msg, key, camera_started, stopCamera, stopEncoder,
                   doubleStart, exit, inputVars, encoder_, enc_frame_count,
                   encode_buffer_queue_, epc, inEncoder, rogue, submitted, released,
                   metadataReady, fatal>>

\* EncodeBuffer: the request is pushed and the lock released.
EncodeBufferPush ==
    /\ Running
    /\ pc = "enc_push"
    /\ encode_buffer_queue_' = QueuePush(encode_buffer_queue_, Len(submitted) + 1)
    /\ submitted' = Append(submitted, Len(submitted) + 1)
    /\ mutex' = "free"
    /\ pc' = "enc_forward"
    /\ UNCHANGED <<options, repeats, stageVars, preludeVars, stampVars, events, now, next_capture_time, end_capture_time, frame_count,
                   delayed_frame, msg, key, camera_started, stopCamera, stopEncoder,
                   doubleStart, exit, inputVars, encoder_, enc_frame_count, epc,
                   inEncoder, rogue, released, metadataReady, fatal>>

\* EncodeBuffer: the buffer is forwarded to the encoder.
EncodeBufferForward ==
    /\ Running
    /\ pc = "enc_forward"
    /\ inEncoder' = inEncoder + 1
    /\ pc' = "advance"
    /\ UNCHANGED <<options, repeats, stageVars, preludeVars, stampVars, events, now, next_capture_time, end_capture_time, frame_count,
                   delayed_frame, msg, key, camera_started, stopCamera, stopEncoder,
                   doubleStart, exit, inputVars, encoder_, enc_frame_count,
                   encode_buffer_queue_, mutex, epc, rogue, submitted, released,
                   metadataReady, fatal>>

\* An Advance that restarts the schedule from the current time after every
\* cycle.
Advance_reanchor ==
    /\ Running
    /\ pc = "advance"
    /\ frame_count' = frame_count + 1
    /\ next_capture_time' = now
    /\ delayed_frame' = delayed_frame + 1
    /\ pc' = "loop"
    /\ UNCHANGED <<options, repeats, stageVars, preludeVars, stampVars, events, now, end_capture_time, msg, key, camera_started,
                   stopCamera, stopEncoder, doubleStart, exit, inputVars, encVars>>

\* event_loop after captureImage returned: the counters and the schedule.
Advance ==
    /\ Running
    /\ pc = "advance"
    /\ frame_count' = frame_count + 1
    /\ LET a == AdvanceSchedule(next_capture_time, options.interval, now, delayed_frame)
       IN /\ next_capture_time' = a.next
          /\ delayed_frame' = a.delayed
    /\ pc' = "loop"
    /\ UNCHANGED <<options, repeats, stageVars, preludeVars, stampVars, events, now, end_capture_time, msg, key, camera_started,
                   stopCamera, stopEncoder, doubleStart, exit, inputVars, encVars>>

\* catch (std::exception const &): stop camera and encoder.
Catch ==
    /\ Running
    /\ pc = "catch"
    /\ Teardown("error")
    /\ UNCHANGED <<options, repeats, stageVars, preludeVars, stampVars, events, now, next_capture_time, end_capture_time, frame_count,
                   delayed_frame, msg, key, doubleStart, inputVars, enc_frame_count,
                   encode_buffer_queue_, mutex, epc, inEncoder, rogue, submitted,
                   released, metadataReady, fatal>>

\* ------------------------------------------------- encoder callback context
\* The encoder reports an input buffer consumed (forwarded = TRUE), or sends
\* a notification that answers no forwarded buffer; encodeBufferDone takes
\* the queue lock.
InputDone(forwarded) ==
    /\ ~fatal
    /\ encoder_
    /\ epc = "idle"
    /\ mutex = "free"
    /\ IF forwarded
       THEN /\ inEncoder > 0
            /\ inEncoder' = inEncoder - 1
            /\ UNCHANGED <<rogue, events>>
       ELSE /\ events < MaxEvents
            /\ events' = events + 1
            /\ inEncoder' = inEncoder
            /\ rogue' = TRUE
    /\ mutex' = "enc"
    /\ epc' = "locked"
    /\ UNCHANGED <<options, repeats, stageVars, preludeVars, stampVars, mainVars, inputVars, encoder_, enc_frame_count,
                   encode_buffer_queue_, submitted, released, metadataReady, fatal>>

\* encodeBufferDone that returns silently on an empty queue.
encodeBufferDone_silent ==
    /\ ~fatal
    /\ epc = "locked"
    /\ IF encode_buffer_queue_ = <<>>
       THEN UNCHANGED <<encode_buffer_queue_, released, metadataReady>>
       ELSE /\ metadataReady' = IF options.metadata
                                THEN Append(metadataReady, QueueFront(encode_buffer_queue_))
                                ELSE metadataReady
            /\ released' = Append(released, QueueFront(encode_buffer_queue_))
            /\ encode_buffer_queue_' = QueuePop(encode_buffer_queue_)
    /\ fatal' = fatal
    /\ epc' = "idle"
    /\ mutex' = "free"
    /\ UNCHANGED <<options, repeats, stageVars, preludeVars, stampVars, events, mainVars, inputVars, encoder_, enc_frame_count,
                   inEncoder, rogue, submitted>>

\* encodeBufferDone under the lock: throw on an empty queue, else report the
\* metadata of the front request and pop it; the lock_guard releases.
encodeBufferDone ==
    /\ ~fatal
    /\ epc = "locked"
    /\ IF encode_buffer_queue_ = <<>>
       THEN /\ fatal' = TRUE
            /\ epc' = "thrown"
            /\ UNCHANGED <<encode_buffer_queue_, released, metadataReady>>
       ELSE /\ metadataReady' = IF options.metadata
                                THEN Append(metadataReady, QueueFront(encode_buffer_queue_))
                                ELSE metadataReady
            /\ released' = Append(released, QueueFront(encode_buffer_queue_))
            /\ encode_buffer_queue_' = QueuePop(encode_buffer_queue_)
            /\ fatal' = fatal
            /\ epc' = "idle"
    /\ mutex' = "free"
    /\ UNCHANGED <<options, repeats, stageVars, preludeVars, stampVars, events, mainVars, inputVars, encoder_, enc_frame_count,
                   inEncoder, rogue, submitted>>

\* ------------------------------------------------------------ specification
Next ==
    \/ \E s \in HandledSignals : default_signal_handler(s)
    \/ \E c \in Lines : InputLine(c)
    \/ OpenCamera
    \/ \E m \in MsgTypes \cup {"Other"}, af \in AfStates : AutofocusEvent(m, af)
    \/ Configure
    \/ LoopHead
    \/ WaitTick
    \/ WaitTimeout
    \/ WaitNoTimeout
    \/ \E m \in MsgTypes, d \in 1..MaxCycle, valid \in BOOLEAN : captureImage(m, d, valid)
    \/ EncodeBufferLock
    \/ EncodeBufferPush
    \/ EncodeBufferForward
    \/ Advance
    \/ Catch
    \/ \E forwarded \in BOOLEAN : InputDone(forwarded)
    \/ encodeBufferDone

Spec == Init /\ [][Next]_vars

\* ------------------------------------------------- timestamps of the encoder
\* EncodeBuffer's timestamp computation alone, for every count of buffers
\* handed to the encoder up to MaxStamped and every frame rate of Framerates.
InitTimestamps ==
    /\ options \in {o \in OptionSet : DefaultSwitches(o) /\ o.interval = RefInterval
                                         /\ o.timeout = RefInterval}
    /\ InitScheduler
    /\ InitQueue
    /\ InitStage
    /\ encoder_ = TRUE
    /\ enc_frame_count \in 0..MaxStamped
    /\ framerate \in Framerates
    /\ timestamp_us = IF enc_frame_count = 0 THEN 0
                      ELSE Timestamp(enc_frame_count - 1, framerate)

StampFrame ==
    /\ enc_frame_count < MaxStamped
    /\ timestamp_us' = Timestamp(enc_frame_count, framerate)
    /\ enc_frame_count' = enc_frame_count + 1
    /\ UNCHANGED <<options, repeats, stageVars, preludeVars, framerate, mainVars, inputVars, events, encoder_,
                   encode_buffer_queue_, mutex, epc, inEncoder, rogue, submitted,
                   released, metadataReady, fatal>>

NextTimestamps == StampFrame

SpecTimestamps == InitTimestamps /\ [][NextTimestamps]_vars

\* ---------------------------------------------------- MotionExtractionStage
\* The stage alone: Read, Configure, any number of Process calls, Stop.
\* The pixel arithmetic of Process is left out; the addresses it walks over
\* are kept.  A pointer is a base address (the number of the allocation)
\* and an offset from it.
ParamSet ==
    [frame_offset : 0..MaxFrameOffset, fixed_frame : BOOLEAN,
     prerecord_frames : 0..MaxPrerecord, skip_uv_diff : BOOLEAN]
Pixels == {2, 3}       \* info_.width * info_.height

InitMotion ==
    /\ options \in {o \in OptionSet : DefaultSwitches(o) /\ o.interval = RefInterval
                                         /\ o.timeout = RefInterval}
    /\ InitScheduler
    /\ InitQueue
    /\ InitStage
    /\ encoder_ = FALSE
    /\ enc_frame_count = 0
    /\ framerate = RefFramerate
    /\ timestamp_us = 0

notStage == <<options, repeats, stampVars, preludeVars, mainVars, inputVars, events,
              encVars>>

\* Read: the members taken from the parameters; bufferFrameStart is computed
\* in uint8_t.
MotionRead(p) ==
    /\ spc = "constructed"
    /\ params' = p
    /\ fixedFrame' = p.fixed_frame
    /\ skip_uv_diff' = p.skip_uv_diff
    /\ frameOffset' = IF p.fixed_frame THEN 1 ELSE p.frame_offset
    /\ bufferFrameStart' = IF p.prerecord_frames = 0 THEN 0
                           ELSE (p.prerecord_frames - frameOffset') % 256
    /\ spc' = "read"
    /\ UNCHANGED <<bufferSize, ySize, uvSize, bufferCount, prerecordFrameCount,
                   frameBuffers, allocated, freed, emptyFront, notStage>>

\* Configure, for a stream of px = width * height pixels.
MotionConfigure(px) ==
    /\ spc = "read"
    /\ bufferSize' = IF skip_uv_diff THEN px ELSE (px * 3) \div 2
    /\ ySize' = px
    /\ uvSize' = px \div 2
    /\ bufferCount' = 0
    /\ prerecordFrameCount' = 0
    /\ spc' = "configured"
    /\ UNCHANGED <<params, frameOffset, fixedFrame, skip_uv_diff, bufferFrameStart,
                   frameBuffers, allocated, freed, emptyFront, notStage>>

\* Process hands delete[] the pointer that walked the whole frame (oldPtr++
\* in both loops) without taking it back.
DeletedPointer_norewind(base, y, uv, size, skipUv) ==
    [base |-> base, off |-> y + (IF skipUv THEN 0 ELSE uv), by |-> "Process"]

\* The pointer Process hands to delete[]: oldPtr starts at the front copy,
\* is advanced ySize times, uvSize times more unless skip_uv_diff, and is
\* then moved back by bufferSize.
DeletedPointer(base, y, uv, size, skipUv) ==
    [base |-> base, off |-> y + (IF skipUv THEN 0 ELSE uv) - size, by |-> "Process"]

\* One Process call.
Process ==
    /\ spc = "configured"
    /\ allocated < MaxFrames
    /\ IF prerecordFrameCount < bufferFrameStart
       THEN /\ prerecordFrameCount' = (prerecordFrameCount + 1) % 256
            /\ UNCHANGED <<bufferCount, frameBuffers, allocated, freed, emptyFront>>
       ELSE LET copies == (~fixedFrame) \/ (fixedFrame /\ bufferCount = 0)
                pushed == IF copies THEN Append(frameBuffers, allocated + 1)
                          ELSE frameBuffers
            IN /\ allocated' = IF copies THEN allocated + 1 ELSE allocated
               /\ prerecordFrameCount' = prerecordFrameCount
               /\ IF bufferCount < frameOffset
                  THEN /\ bufferCount' = (bufferCount + 1) % 256
                       /\ frameBuffers' = pushed
                       /\ UNCHANGED <<freed, emptyFront>>
                  ELSE /\ bufferCount' = bufferCount
                       /\ IF pushed = <<>>
                          THEN /\ emptyFront' = TRUE
                               /\ frameBuffers' = pushed
                               /\ freed' = freed
                          ELSE /\ emptyFront' = emptyFront
                               /\ frameBuffers' = IF fixedFrame THEN pushed
                                                  ELSE Tail(pushed)
                               /\ freed' = IF fixedFrame THEN freed
                                           ELSE Append(freed,
                                                    DeletedPointer(Head(pushed), ySize,
                                                        uvSize, bufferSize, skip_uv_diff))
    /\ UNCHANGED <<spc, params, frameOffset, fixedFrame, skip_uv_diff,
                   bufferFrameStart, bufferSize, ySize, uvSize, notStage>>

\* Stop: after the delay, every copy still queued is deleted and popped.
Stop ==
    /\ spc = "configured"
    /\ freed' = freed \o [i \in 1..Len(frameBuffers) |->
                              [base |-> frameBuffers[i], off |-> 0, by |-> "Stop"]]
    /\ frameBuffers' = <<>>
    /\ spc' = "stopped"
    /\ UNCHANGED <<params, frameOffset, fixedFrame, skip_uv_diff, bufferFrameStart,
                   bufferSize, ySize, uvSize, bufferCount, prerecordFrameCount,
                   allocated, emptyFront, notStage>>

NextMotion ==
    \/ \E p \in ParamSet : MotionRead(p)
    \/ \E px \in Pixels : MotionConfigure(px)
    \/ Process
    \/ Stop

SpecMotion == InitMotion /\ [][NextMotion]_vars

\* ------------------------------------------------------------------ claims
StartInstant == end_capture_time - options.timeout

\* A step in which get_key_or_signal is called: the poll at the head of a
\* loop iteration, or the poll after a completed request in the prelude.
PollStep ==
    \/ pc = "loop" /\ pc' # "loop" /\ LoopCondition(next_capture_time, end_capture_time)
    \/ pc = "af_wait" /\ msg' = "RequestComplete" /\ events' = events

\* What a poll would report in the current state.
AbortPending == IsAbortKey(get_key_or_signal(options, signal_received, stdin).key)

\* C1: a run with positive interval I and duration D that ends because the
\* end time is reached (no abort, no early return of the wait, no error) and
\* had no overrun has triggered exactly floor(D / I) + 1 captures, and while
\* no overrun has happened the k-th capture (k from 0) is triggered for the
\* instant startInstant + k * I.
C1_CaptureCount ==
    /\ (exit = "end" /\ options.interval > 0 /\ delayed_frame = 0)
          => frame_count = (options.timeout \div options.interval) + 1
    /\ (pc = "capture" /\ delayed_frame = 0)
          => next_capture_time = StartInstant + frame_count * options.interval

C1_Witness ==
    /\ exit = "end"
    /\ ~options.af_on_capture
    /\ options.interval = 2
    /\ options.timeout = 5
    /\ frame_count = 3
    /\ delayed_frame = 0
    /\ events = 0

\* C2: the step that ends a capture cycle at time now re-anchors the schedule
\* to now and counts one delayed frame when now is later than the advanced
\* target (previous instant + interval), and otherwise moves the schedule to
\* the advanced target and leaves the delayed count alone; either way the new
\* instant is not in the past, so no missed instant is replayed.
C2_DriftCorrection ==
    [][(pc = "advance" /\ pc' = "loop") =>
          LET target == next_capture_time + options.interval
          IN /\ IF now > target
                THEN next_capture_time' = now /\ delayed_frame' = delayed_frame + 1
                ELSE next_capture_time' = target /\ delayed_frame' = delayed_frame
             /\ next_capture_time' >= now']_vars

C2_Witness ==
    /\ pc = "loop"
    /\ options.interval = 1
    /\ frame_count = 1
    /\ delayed_frame = 1
    /\ next_capture_time = StartInstant + 2

\* C3: the buffers released are, in order, the first buffers submitted, and
\* the queue holds exactly the submitted buffers not yet released, in
\* submission order: no buffer is released twice, skipped or out of order.
C3_FifoRelease ==
    /\ IsPrefix(released, submitted)
    /\ encode_buffer_queue_ = SubSeq(submitted, Len(released) + 1, Len(submitted))
    /\ \A i \in 1..Len(submitted) : submitted[i] = i

C3_Witness ==
    /\ Len(released) = 2
    /\ Len(encode_buffer_queue_) = 1
    /\ ~rogue

\* C4: a notification that finds the queue empty ends in the error state:
\* the queue stays empty, nothing is released, no metadata is reported and
\* the queue lock is free again.
C4_EmptyNotificationFatal ==
    [][(epc = "locked" /\ encode_buffer_queue_ = <<>> /\ epc' # epc) =>
          /\ fatal'
          /\ encode_buffer_queue_' = <<>>
          /\ released' = released
          /\ metadataReady' = metadataReady
          /\ mutex' = "free"]_vars

C4_Witness ==
    /\ fatal
    /\ options.metadata
    /\ encode_buffer_queue_ = <<>>
    /\ mutex = "free"

\* C5: a SIGINT delivered while the wait for the next capture instant is
\* blocked ends the wait without the capture for that instant; an abort seen
\* before any capture ends the run with camera and encoder stopped once each.
C5_AbortInterruptsWait ==
    /\ pc = "capture" => sigint # "in_wait"
    /\ (exit = "abort_loop" /\ frame_count = 0 /\ ~options.af_on_capture)
          => stopCamera = 1 /\ stopEncoder = 1

\* C6: a capture cycle that ends in a device timeout leaves
\* next_capture_time and frame_count as they were before the cycle.
C6_TimeoutKeepsSchedule ==
    [][(pc = "advance" /\ msg = "Timeout" /\ pc' = "loop") =>
          /\ next_capture_time' = next_capture_time
          /\ frame_count' = frame_count]_vars

\* C7: a poll that follows a SIGINT delivery reports abort, whatever other
\* signals were delivered after the SIGINT.
C7_StrongestSignalWins ==
    [][(PollStep /\ sigint # "none") => IsAbortKey(key')]_vars

\* C8 as stated: a poll that finds a signal pending leaves the signal state
\* empty, for every signal and every setting of the signal option.
C8_EdgeTriggered ==
    [][(PollStep /\ signal_received # NoSignal) => signal_received' = NoSignal]_vars

\* C8 as amended: with the signal option on, a poll that finds a signal other
\* than SIGINT pending leaves the signal state empty; a pending SIGINT, and
\* any signal with the signal option off, stays stored; and a poll that finds
\* no signal and no input line pending reports no key.
C8_ResetWhenEnabled ==
    [][PollStep =>
          /\ (options.signal /\ signal_received # "SIGINT")
                => signal_received' = NoSignal
          /\ (signal_received = "SIGINT" \/ ~options.signal)
                => signal_received' = signal_received
          /\ (signal_received = NoSignal /\ (stdin = NoLine \/ ~options.keypress))
                => key' = NoKey]_vars

C8_Witness ==
    /\ options.signal
    /\ pc = "waiting"
    /\ key = "\n"
    /\ signal_received = NoSignal

\* C9: whenever event_loop has ended, StopCamera and StopEncoder have been
\* called and the capture device is stopped.
C9_AlwaysStops ==
    pc = "done" => stopCamera >= 1 /\ stopEncoder >= 1 /\ ~camera_started

\* C10: in the autofocus prelude a device timeout that comes while an abort
\* request is pending makes the prelude return.
C10_TimeoutAfterAbortReturns ==
    [][(pc = "af_wait" /\ AbortPending /\ msg' = "Timeout"
          /\ stopCamera' # stopCamera) => pc' = "done"]_vars

\* C11: once the encode pipeline has been stopped (StopEncoder has run and no
\* notification is being handled) the outstanding-buffer queue is empty, so
\* every registered buffer was released by its notification or by the
\* teardown.  StopEncoder only resets encoder_ and leaves
\* encode_buffer_queue_ as it is: a buffer whose notification had not come
\* stays registered.
C11_StoppedPipelineDrained ==
    (pc = "done" /\ stopEncoder >= 1 /\ ~encoder_ /\ epc = "idle")
        => /\ encode_buffer_queue_ = <<>>
           /\ released = submitted

C13_Timestamps ==
    [][enc_frame_count' = enc_frame_count + 1
          => /\ [hi |-> timestamp_us' \div 1000000, lo |-> timestamp_us' % 1000000]
                    = FrameQuotient(enc_frame_count, framerate)
             /\ timestamp_us' >= timestamp_us]_vars

\* C14: once entered, the scheduling loop is left only because
\* next_capture_time > end_capture_time, because a poll observed an abort,
\* or because of a fatal error; in particular not because the timed wait
\* returned before its target instant.
C14_LoopEndsOnlyFor ==
    (pc = "done" /\ exit \notin {"quit", "abort_af"})
        => \/ exit = "end" /\ next_capture_time > end_capture_time
           \/ exit = "abort_loop" /\ IsAbortKey(key)
           \/ exit = "error"

\* C15: a poll that reads an input line (key presses enabled, no SIGINT
\* pending) whose first character is 'x' or 'X' returns an abort key whatever
\* signal is pending, and a poll that reads a line starting with another
\* character returns an abort key only if a signal asks for it.
C15_AbortLineAborts ==
    [][(PollStep /\ options.keypress /\ stdin # NoLine /\ signal_received # "SIGINT")
          => /\ stdin' = NoLine
             /\ IsAbortKey(stdin) => IsAbortKey(key')
             /\ (~IsAbortKey(stdin) /\ IsAbortKey(key'))
                    => (options.signal /\ signal_received # NoSignal)]_vars

\* C16: with autofocus on capture disabled no device call is made between
\* OpenCamera and ConfigureStill (the camera is not started, no message is
\* waited for, no control is set, nothing is stopped or torn down), no
\* autofocus control is ever set, and the schedule starts at the instant the
\* prelude was left: next_capture_time = start instant = now.
C16_NoPreludeWithoutAutofocus ==
    ~options.af_on_capture
        => /\ preludeCalls = {}
           /\ afControls = {}
           /\ pc = "configure"
                => ~camera_started /\ stopCamera = 0 /\ msg = "none" /\ ~doubleStart
           /\ (pc \in {"loop", "waiting", "capture"} /\ frame_count = 0)
                => /\ next_capture_time = StartInstant
                   /\ next_capture_time = now
                   /\ stopCamera = 0

C16_Witness ==
    /\ ~options.af_on_capture
    /\ pc = "capture"
    /\ frame_count = 0
    /\ preludeCalls = {}
    /\ afControls = {}
    /\ stopCamera = 0
    /\ next_capture_time = StartInstant

\* C17: next_capture_time never decreases, for every interval >= 0; the
\* step that follows a capture cycle either adds exactly the interval or
\* moves it to the current time, which is then at least the old value plus
\* the interval; delayed_frame never exceeds frame_count.
C17_ScheduleMonotone ==
    [][/\ next_capture_time' >= next_capture_time
       /\ (pc = "advance" /\ pc' = "loop")
            => /\ \/ next_capture_time' = next_capture_time + options.interval
                  \/ /\ next_capture_time' = now
                     /\ now >= next_capture_time + options.interval
               /\ frame_count' = frame_count + 1
       /\ delayed_frame' <= frame_count'
       /\ options.interval >= 0]_vars

C17_Witness ==
    /\ options.interval = 0
    /\ pc = "loop"
    /\ frame_count = 2
    /\ delayed_frame = 2
    /\ next_capture_time = now
    /\ next_capture_time > StartInstant

\* C18: as long as the encoder notifies only buffers that were forwarded to
\* it, and each of them at most once, every notification finds a registered
\* buffer: forwarded buffers not yet notified, and the one being handled,
\* are all in the queue, so encodeBufferDone never sees it empty and never
\* throws; the critical sections of EncodeBuffer (push) and of
\* encodeBufferDone (front, pop) never overlap.
C18_NotificationFindsBuffer ==
    /\ ~rogue
         => /\ ~fatal
            /\ inEncoder + (IF epc = "locked" THEN 1 ELSE 0) <= Len(encode_buffer_queue_)
            /\ epc = "locked" => encode_buffer_queue_ # <<>>
    /\ ~(pc = "enc_push" /\ epc = "locked")
    /\ mutex = "main" <=> pc = "enc_push"
    /\ mutex = "enc" <=> epc = "locked"

C18_Witness ==
    /\ ~rogue
    /\ epc = "locked"
    /\ pc = "enc_lock"
    /\ Len(encode_buffer_queue_) = 1
    /\ Len(submitted) = 1
    /\ inEncoder = 0

\* C19: StartCamera is never called while the capture device is started.
\* A capture cycle that ends in a device timeout restarts the device before
\* captureImage returns, and the next cycle starts it again.
C19_StartOnlyWhenStopped == ~doubleStart

\* C20: for every configuration of the stage and every sequence of Process
\* calls followed by Stop: each pointer given to delete[] is the base address
\* of a frame copy that Process allocated, no copy is deleted twice, the
\* copies not yet deleted are exactly the queued ones, Process never calls
\* front() on the empty queue, the queue never holds more than
\* frame_offset + 1 copies, and after Stop the queue is empty and every copy
\* allocated has been deleted.
C20_FrameBuffers ==
    /\ \A i \in 1..Len(freed) : freed[i].off = 0 /\ freed[i].base \in 1..allocated
    /\ \A i, j \in 1..Len(freed) : freed[i].base = freed[j].base => i = j
    /\ \A i, j \in 1..Len(frameBuffers) : frameBuffers[i] = frameBuffers[j] => i = j
    /\ Range(frameBuffers) = (1..allocated) \ {freed[i].base : i \in 1..Len(freed)}
    /\ ~emptyFront
    /\ spc # "constructed" => Len(frameBuffers) <= params.frame_offset + 1
    /\ spc = "stopped" => frameBuffers = <<>> /\ Len(freed) = allocated

C20_Witness ==
    /\ spc = "stopped"
    /\ ~fixedFrame
    /\ ~skip_uv_diff
    /\ frameOffset = 2
    /\ ySize = 3
    /\ allocated = 3
    /\ Len(freed) = 3
    /\ freed[1].by = "Process"
    /\ freed[3].by = "Stop"

====
